---- MODULE Spec2Model ----
(***************************************************************************)
(* Model of lmi/scripts/_metacommand/__init__.py: the MetaCommand          *)
(* application object (configuration, logging, lazily built session and    *)
(* command manager) and MetaCommand.run's mapping of exceptions to an exit *)
(* code.                                                                   *)
(***************************************************************************)
EXTENDS Integers, Sequences, FiniteSets, TLC

\* ---------------------------------------------------------------- bounds
\* largest number of -v flags on the command line
MaxV == 3
\* largest number of MetaCommand members the top-level command touches
MaxCalls == 3

\* ---------------------------------------------------------- python values
\* Python's None and a present value: None is <<>>, a value x is <<x>>.
None == <<>>
Some(x) == <<x>>
\* truth value of a list, or of a None-or-string option
Truthy(x) == x # <<>>

\* A string whose characters matter (hostnames, lines of the hosts file) is
\* a sequence of one-character strings.
Whitespace == {" ", "\n", "\t"}

H1 == <<"h", "1">>
H2 == <<"h", "2">>

\* ----------------------------------------------------- library constants
ERROR == 40
WARNING == 30
INFO == 20
DEBUG == 10

OUTPUT_SILENT == -1
OUTPUT_WARNING == 0
OUTPUT_INFO == 1
OUTPUT_DEBUG == 2

Min(a, b) == IF a <= b THEN a ELSE b

\* str.upper() on the logging level names a configuration file may hold
upper(s) ==
    CASE s = "debug" -> "DEBUG"
      [] s = "error" -> "ERROR"
      [] OTHER -> s

\* getattr(logging, name): the attribute, or None when there is none
\* (getattr raises AttributeError)
logging_getattr(name) ==
    CASE name = "ERROR" -> Some(ERROR)
      [] name = "WARNING" -> Some(WARNING)
      [] name = "INFO" -> Some(INFO)
      [] name = "DEBUG" -> Some(DEBUG)
      [] OTHER -> None

\* ------------------------------------------------------- exception classes
ExceptionClasses == {"LmiError", "AttributeError", "TypeError", "IOError", "RuntimeError"}
\* SystemExit derives from BaseException, not from Exception
IsException(c) == c \in ExceptionClasses
IsLmiError(c) == c = "LmiError"

\* ------------------------------------------------------------ hosts file
\* str.strip(): drop leading and trailing whitespace
RECURSIVE lstrip(_)
lstrip(s) == IF s # <<>> /\ Head(s) \in Whitespace THEN lstrip(Tail(s)) ELSE s

RECURSIVE rstrip(_)
rstrip(s) ==
    IF s # <<>> /\ s[Len(s)] \in Whitespace
    THEN rstrip(SubSeq(s, 1, Len(s) - 1))
    ELSE s

strip(s) == lstrip(rstrip(s))

\* What parse_hosts_file may be handed: a file object opened for reading
\* (with its lines) or a plain string (a path).
FileObject(lines) == [type |-> "file", lines |-> lines]
StrObject(path) == [type |-> "str", path |-> path]

RECURSIVE parse_lines(_)
parse_lines(lines) ==
    IF lines = <<>> THEN <<>>
    ELSE <<strip(Head(lines))>> \o parse_lines(Tail(lines))

\* parse_hosts_file(hosts_file): hosts_file.readlines() exists on a file
\* object only; on a str the attribute lookup raises AttributeError.
parse_hosts_file(hosts_file) ==
    IF hosts_file.type = "file"
    THEN [raised |-> "none", res |-> parse_lines(hosts_file.lines)]
    ELSE [raised |-> "AttributeError", res |-> <<>>]

\* What the file "hosts.txt" may hold, as the lines readlines() returns
\* (see Readable: every other path cannot be opened).
FileContents ==
    { << <<" ", "h", "1", "\n">> >>,
      << <<"h", "2", " ", "\n">>, <<"\n">>, <<"\t", "h", "1">> >> }

\* ------------------------------------------------------------------ state
VARIABLES
    pc,               \* "new", "running", "returned", "exited"
    config,           \* self.config: None or Some(Configuration)
    _options,         \* self._options: None or Some(dict)
    _session,         \* self._session: None or Some(Session)
    _command_manager, \* self._command_manager: None or Some(CommandManager)
    stdout,           \* self.stdout: "sys.stdout" or "NullFile"
    written,          \* what has reached the real standard output
    handlers,         \* handlers of the root logger, in order
    rootLevel,        \* level of the root logger
    log,              \* calls made on LOG(), in order
    exc,              \* exception in flight inside cmd.run, or "none"
    exitArg,          \* argument of the sys.exit call in flight or done
    result,           \* what MetaCommand.run returned: None or Some(value)
    raised,           \* exception class that left cmd.run, or "none"
    cmdReturned,      \* value cmd.run returned: None or Some(value)
    fs,               \* lines of the file "hosts.txt"
    calls,            \* members of MetaCommand touched so far
    lastOp,           \* the last member touched and how it ended
    setupArgs,        \* None, or Some of the flags setup was called with
    nSessions,        \* Session objects constructed
    nManagers,        \* CommandManager objects constructed
    optionReads,      \* times session looked into self._options
    fileOpens         \* times the hosts file was opened

vars == << pc, config, _options, _session, _command_manager, stdout, written,
           handlers, rootLevel, log, exc, exitArg, result, raised, cmdReturned,
           fs, calls, lastOp, setupArgs, nSessions, nManagers, optionReads,
           fileOpens >>

\* the members of MetaCommand
app == << config, _options, _session, _command_manager, stdout >>
\* the logging module's state
logging == << handlers, rootLevel >>
\* counters of what session did
sessionCounts == << nSessions, optionReads, fileOpens >>
\* MetaCommand.run's own position and outcome
runState == << pc, result, raised, cmdReturned >>

\* lastOp: the member, the exception that left it ("none" when it returned)
\* and whether it constructed the object it returned
Op(name, how) == [op |-> name, raised |-> how, fresh |-> FALSE]
Fresh(name) == [op |-> name, raised |-> "none", fresh |-> TRUE]

\* MetaCommand.__init__, and the module's import: one NullHandler on the root
\* logger, whose level is logging's default WARNING.
Init ==
    /\ pc = "new"
    /\ config = None
    /\ _options = None
    /\ _session = None
    /\ _command_manager = None
    /\ stdout = "sys.stdout"
    /\ written = <<>>
    /\ handlers = <<"NullHandler">>
    /\ rootLevel = WARNING
    /\ log = <<>>
    /\ exc = "none"
    /\ exitArg = None
    /\ result = None
    /\ raised = "none"
    /\ cmdReturned = None
    /\ fs \in FileContents
    /\ calls = 0
    /\ lastOp = Op("none", "none")
    /\ setupArgs = None
    /\ nSessions = 0
    /\ nManagers = 0
    /\ optionReads = 0
    /\ fileOpens = 0

\* --------------------------------------------------------------- options
\* dict.pop(k, default) and del d[k]: the dict without the key
Without(d, k) == [x \in DOMAIN d \ {k} |-> d[x]]
\* the value dict.pop(k, default) returns
PopValue(d, k, default) == IF k \in DOMAIN d THEN d[k] ELSE default

HostLists == { <<>>, <<H1>>, <<H2, H1>> }
HostsFiles == { None, Some("hosts.txt"), Some("missing.txt") }
Users == { None, Some("root") }
ConfigFiles == { None, Some("lmi.conf") }

\* the dictionaries docopt hands to setup
FullOptions ==
    { ("--config-file" :> cf) @@ ("--trace" :> t) @@ ("--quiet" :> q)
      @@ ("-v" :> v) @@ ("--host" :> h) @@ ("--hosts-file" :> hf)
      @@ ("--user" :> u) :
        cf \in ConfigFiles, t \in BOOLEAN, q \in BOOLEAN, v \in 0..MaxV,
        h \in HostLists, hf \in HostsFiles, u \in Users }

Options == FullOptions \cup { Without(o, "--trace") : o \in FullOptions }

\* can open(path, 'rt') succeed
Readable(path) == path = "hosts.txt"

\* ------------------------------------------------------- Configuration
\* What the configuration files hold when Configuration.get_instance reads
\* them: whether they can be loaded, [Log] Level and [Log] OutputFile.
LevelNames == { "debug", "ERROR", "bogus" }
LogFiles == { None, Some("lmi.log"), Some("/nonexistent/lmi.log") }
Environments ==
    [ loads : BOOLEAN, logging_level : LevelNames, log_file : LogFiles ]

\* A fresh Configuration: tracing off, default verbosity.
NewConfiguration(kwargs, env) ==
    [ kwargs |-> kwargs,
      trace |-> FALSE,
      verbosity |-> OUTPUT_WARNING,
      logging_level |-> env.logging_level,
      log_file |-> env.log_file ]

\* Configuration.silent
silent(c) == c.verbosity <= OUTPUT_SILENT

\* logging.FileHandler(filename=...) opens the file, or raises IOError
CanOpenLog(path) == path = "lmi.log"

\* the level of the console handler (the dict lookup with its default)
console_level(verbosity, default) ==
    CASE verbosity = OUTPUT_SILENT -> ERROR
      [] verbosity = OUTPUT_WARNING -> WARNING
      [] verbosity = OUTPUT_INFO -> INFO
      [] verbosity = OUTPUT_DEBUG -> DEBUG
      [] OTHER -> default

\* _configure_logging without its last loop: the NullHandlers stay
keep_null(hs) == hs

\* the root logger's handlers that are not NullHandlers, in order
RECURSIVE without_null(_)
without_null(hs) ==
    IF hs = <<>> THEN <<>>
    ELSE IF Head(hs) = "NullHandler" THEN without_null(Tail(hs))
    ELSE <<Head(hs)>> \o without_null(Tail(hs))

\* the stdout member once logging is configured
stdout_after(c, out) == IF silent(c) THEN "NullFile" ELSE out

\* MetaCommand._configure_logging on configuration c: the exception it
\* raises ("none" when it completes) and the handlers, root level and
\* stdout member it leaves.
_configure_logging(c, hs, lvl, out) ==
    LET logging_level == logging_getattr(upper(c.logging_level))
        log_file == c.log_file
        unchanged == [raised |-> "none", handlers |-> hs, rootLevel |-> lvl,
                      stdout |-> out]
    IN  IF logging_level = None
        THEN \* getattr raises AttributeError; the handler is for KeyError
             [unchanged EXCEPT !.raised = "AttributeError"]
        ELSE IF log_file # None /\ ~CanOpenLog(log_file[1])
        THEN [unchanged EXCEPT !.raised = "IOError"]
        ELSE
          LET withFile == IF log_file # None
                          THEN Append(hs, "FileHandler") ELSE hs
              console_level_default ==
                  IF Truthy(log_file) THEN ERROR ELSE logging_level[1]
              level == console_level(c.verbosity, console_level_default)
          IN  [ raised |-> "none",
                handlers |-> without_null(Append(withFile, "StreamHandler")),
                rootLevel |-> Min(logging_level[1], level),
                stdout |-> stdout_after(c, out) ]

\* setup with the two tests in the other order: -v wins over --quiet
setup_verbosity_v_first(options, old) ==
    IF options["-v"] > 0 THEN options["-v"]
    ELSE IF options["--quiet"] THEN OUTPUT_SILENT
    ELSE old

\* the verbosity setup stores, from --quiet and -v
setup_verbosity(options, old) ==
    IF options["--quiet"] THEN OUTPUT_SILENT
    ELSE IF options["-v"] > 0 THEN options["-v"]
    ELSE old

\* the dictionary setup keeps as self._options
setup_options(options) ==
    LET o1 == IF Truthy(options["--config-file"])
              THEN Without(options, "--config-file") ELSE options
        o2 == Without(o1, "--trace")
    IN  Without(Without(o2, "--quiet"), "-v")

\* MetaCommand.setup(options), called by the top-level command once it has
\* parsed the command line.
setup(options, env) ==
    /\ pc = "running" /\ exc = "none" /\ calls < MaxCalls
    /\ setupArgs = None
    /\ calls' = calls + 1
    /\ setupArgs' = Some([quiet |-> options["--quiet"], v |-> options["-v"]])
    /\ IF ~env.loads
       THEN \* Configuration.get_instance raises: nothing was assigned
            /\ exc' = "RuntimeError"
            /\ lastOp' = Op("setup", "RuntimeError")
            /\ UNCHANGED << app, logging >>
       ELSE LET conf_kwargs == IF Truthy(options["--config-file"])
                               THEN options["--config-file"] ELSE None
                fresh == NewConfiguration(conf_kwargs, env)
                c == [fresh EXCEPT
                        !.trace = PopValue(options, "--trace", FALSE),
                        !.verbosity = setup_verbosity(options, fresh.verbosity)]
                r == _configure_logging(c, handlers, rootLevel, stdout)
            IN  /\ config' = Some(c)
                /\ handlers' = r.handlers
                /\ rootLevel' = r.rootLevel
                /\ stdout' = r.stdout
                /\ exc' = r.raised
                /\ lastOp' = Op("setup", r.raised)
                /\ _options' = IF r.raised = "none"
                               THEN Some(setup_options(options)) ELSE _options
                /\ UNCHANGED << _session, _command_manager >>
    /\ UNCHANGED << runState, written, log, exitArg, fs, sessionCounts, nManagers >>

\* ---------------------------------------------------------------- session
Range(s) == { s[i] : i \in DOMAIN s }

\* the test with its second "not" dropped
missing_hosts_one_not(o) == ~Truthy(o["--host"]) /\ Truthy(o["--hosts-file"])

\* the test that sends session to sys.exit(1)
missing_hosts(o) == ~Truthy(o["--host"]) /\ ~Truthy(o["--hosts-file"])

\* the hosts taken from --hosts-file: open(path, 'rt') succeeds or raises
\* IOError, and parse_hosts_file is then called with the option's value,
\* the path.
hosts_from_file(o, lines) ==
    LET path == o["--hosts-file"][1]
    IN  IF ~Readable(path)
        THEN [raised |-> "IOError", opened |-> FALSE, res |-> <<>>]
        ELSE LET r == parse_hosts_file(StrObject(path))
             IN  [raised |-> r.raised, opened |-> TRUE, res |-> r.res]

\* the credentials argument of Session
credentials_of(o, hosts) ==
    IF Truthy(o["--user"])
    THEN Some([h \in Range(hosts) |-> <<o["--user"][1], "">>])
    ELSE None

Session(id, hosts, credentials) ==
    [id |-> id, app |-> "self", hosts |-> hosts, credentials |-> credentials]

\* the body of the session property when self._session is None and
\* self._options is the dict o: the exception that leaves it ("none" when a
\* Session is constructed), the critical message logged, whether the hosts
\* file was opened, and the hosts and credentials of the Session.
new_session(o, lines) ==
    LET nothing == [raised |-> "none", critical |-> None, opened |-> FALSE,
                    hosts |-> <<>>, credentials |-> None]
    IN  IF missing_hosts(o)
        THEN [nothing EXCEPT !.raised = "SystemExit",
                             !.critical = Some("missing one of (--host | --hosts-file) arguments")]
        ELSE LET f == IF Truthy(o["--hosts-file"])
                      THEN hosts_from_file(o, lines)
                      ELSE [raised |-> "none", opened |-> FALSE, res |-> <<>>]
                 hosts == f.res \o o["--host"]
             IN  IF f.raised = "IOError"
                 THEN \* except (OSError, IOError): critical, sys.exit(1)
                      [nothing EXCEPT !.raised = "SystemExit",
                                      !.critical = Some("could not read hosts file")]
                 ELSE IF f.raised # "none"
                 THEN [nothing EXCEPT !.raised = f.raised, !.opened = f.opened]
                 ELSE [nothing EXCEPT !.opened = f.opened, !.hosts = hosts,
                                      !.credentials = credentials_of(o, hosts)]

\* the test that never finds the kept Session
never_cached(s) == s # None /\ s = None

\* is the Session kept (self._session is not None)
cached(s) == s # None

\* reading the session property
session ==
    /\ pc = "running" /\ exc = "none" /\ calls < MaxCalls
    /\ calls' = calls + 1
    /\ IF cached(_session)
       THEN /\ lastOp' = Op("session", "none")
            /\ UNCHANGED << _session, log, exc, exitArg, sessionCounts >>
       ELSE IF _options = None
       THEN \* self._options['--host'] on None raises TypeError
            /\ exc' = "TypeError"
            /\ lastOp' = Op("session", "TypeError")
            /\ UNCHANGED << _session, log, exitArg, sessionCounts >>
       ELSE LET r == new_session(_options[1], fs)
            IN  /\ optionReads' = optionReads + 1
                /\ fileOpens' = IF r.opened THEN fileOpens + 1 ELSE fileOpens
                /\ log' = IF r.critical # None
                          THEN Append(log, [method |-> "critical", msg |-> r.critical[1]])
                          ELSE log
                /\ exc' = r.raised
                /\ exitArg' = IF r.raised = "SystemExit" THEN Some(1) ELSE exitArg
                /\ lastOp' = IF r.raised = "none" THEN Fresh("session")
                              ELSE Op("session", r.raised)
                /\ IF r.raised = "none"
                   THEN /\ _session' = Some(Session(nSessions + 1, r.hosts, r.credentials))
                        /\ nSessions' = nSessions + 1
                   ELSE UNCHANGED << _session, nSessions >>
    /\ UNCHANGED << config, _options, _command_manager, stdout, written, logging,
                    runState, fs, setupArgs, nManagers >>

\* -------------------------------------------------------- command_manager
\* CommandManager() followed by add_command('help', Help)
new_command_manager(id) == [id |-> id, commands |-> <<"help">>]

\* reading the command_manager property
command_manager ==
    /\ pc = "running" /\ exc = "none" /\ calls < MaxCalls
    /\ calls' = calls + 1
    /\ IF _command_manager = None
       THEN /\ _command_manager' = Some(new_command_manager(nManagers + 1))
            /\ nManagers' = nManagers + 1
            /\ lastOp' = Fresh("command_manager")
       ELSE /\ lastOp' = Op("command_manager", "none")
            /\ UNCHANGED << _command_manager, nManagers >>
    /\ UNCHANGED << config, _options, _session, stdout, written, logging, log, exc,
                    exitArg, runState, fs, setupArgs, sessionCounts >>

\* ---------------------------------------------------------- print_version
\* file.write(text) on the stdout member: NullFile.write ignores its
\* arguments, sys.stdout receives the text.
write(out, buffer, text) ==
    IF out = "NullFile" THEN buffer ELSE Append(buffer, text)

print_version ==
    /\ pc = "running" /\ exc = "none" /\ calls < MaxCalls
    /\ calls' = calls + 1
    /\ lastOp' = Op("print_version", "none")
    /\ written' = write(stdout, written, "version")
    /\ UNCHANGED << app, logging, log, exc, exitArg, runState, fs, setupArgs,
                    sessionCounts, nManagers >>

\* -------------------------------------------------------- TopLevelCommand
\* values the top-level command's run may return
ReturnValues == { 0, 1, 2 }
\* exceptions the top-level command and the commands under it raise on
\* their own
CommandErrors == { "LmiError", "RuntimeError" }

\* cmd.run(argv) returns v
cmd_return(v) ==
    /\ pc = "running" /\ exc = "none"
    /\ cmdReturned' = Some(v)
    /\ result' = Some(v)
    /\ pc' = "returned"
    /\ UNCHANGED << app, written, logging, log, exc, exitArg, raised, fs, calls,
                    lastOp, setupArgs, sessionCounts, nManagers >>

\* code under cmd.run raises e
cmd_raise(e) ==
    /\ pc = "running" /\ exc = "none"
    /\ exc' = e
    /\ UNCHANGED << app, written, logging, log, exitArg, runState, fs, calls,
                    lastOp, setupArgs, sessionCounts, nManagers >>

\* code under cmd.run handles the exception in flight and goes on
cmd_catch ==
    /\ pc = "running" /\ IsException(exc)
    /\ exc' = "none"
    /\ UNCHANGED << app, written, logging, log, exitArg, runState, fs, calls,
                    lastOp, setupArgs, sessionCounts, nManagers >>

\* -------------------------------------------------------- MetaCommand.run
\* cmd = TopLevelCommand(self); try: return cmd.run(argv)
run_enter ==
    /\ pc = "new"
    /\ pc' = "running"
    /\ UNCHANGED << app, written, logging, log, exc, exitArg, result, raised,
                    cmdReturned, fs, calls, lastOp, setupArgs, sessionCounts,
                    nManagers >>

\* tracing taken to be off while there is no configuration
trace_of_default_off(c) == IF c = None THEN FALSE ELSE c[1].trace

\* trace = True if self.config is None else self.config.trace
trace_of(c) == IF c = None THEN TRUE ELSE c[1].trace

\* the LOG() method the handler calls for exception class e
log_method(e, trace) ==
    IF IsLmiError(e) \/ ~trace THEN "error" ELSE "exception"

\* the exit code the handler returns
handler_code == 1

\* the handler without its "return 1": run returns None
run_except_no_return ==
    /\ pc = "running" /\ IsException(exc)
    /\ raised' = exc
    /\ log' = Append(log, [method |-> log_method(exc, trace_of(config)),
                           msg |-> exc])
    /\ result' = None
    /\ exc' = "none"
    /\ pc' = "returned"
    /\ UNCHANGED << app, written, logging, exitArg, cmdReturned, fs, calls, lastOp,
                    setupArgs, sessionCounts, nManagers >>

\* except Exception as exc: the exception leaves cmd.run and is handled
run_except ==
    /\ pc = "running" /\ IsException(exc)
    /\ raised' = exc
    /\ log' = Append(log, [method |-> log_method(exc, trace_of(config)),
                           msg |-> exc])
    /\ result' = Some(handler_code)
    /\ exc' = "none"
    /\ pc' = "returned"
    /\ UNCHANGED << app, written, logging, exitArg, cmdReturned, fs, calls, lastOp,
                    setupArgs, sessionCounts, nManagers >>

\* SystemExit is no Exception: it passes the handler and ends the process
run_exit ==
    /\ pc = "running" /\ exc = "SystemExit"
    /\ raised' = "SystemExit"
    /\ pc' = "exited"
    /\ UNCHANGED << app, written, logging, log, exc, exitArg, result, cmdReturned,
                    fs, calls, lastOp, setupArgs, sessionCounts, nManagers >>

\* ------------------------------------------------------------------- spec
Next ==
    \/ run_enter
    \/ (setupArgs = None /\ \E o \in Options, env \in Environments : setup(o, env))
    \/ session
    \/ command_manager
    \/ print_version
    \/ \E v \in ReturnValues : cmd_return(v)
    \/ \E e \in CommandErrors : cmd_raise(e)
    \/ cmd_catch
    \/ run_except
    \/ run_exit

Spec == Init /\ [][Next]_vars

\* ----------------------------------------------------------------- claims
\* setup ran to its last line
SetupCompleted == _options # None

\* C1: MetaCommand.run never lets an Exception of the top-level command
\* out: when cmd.run raised an Exception, run returned 1; when cmd.run
\* raised nothing, run returned the very value cmd.run returned; the only
\* thing that leaves run is a SystemExit.
C1_RunMapsExceptions ==
    /\ (pc = "returned" /\ raised # "none") =>
          (IsException(raised) /\ result = Some(1) /\ cmdReturned = None)
    /\ (pc = "returned" /\ raised = "none") =>
          (cmdReturned # None /\ result = cmdReturned)
    /\ pc = "exited" => (~IsException(raised) /\ result = None)
    /\ pc \in {"new", "running"} => result = None

C1_Witness ==
    /\ pc = "returned"
    /\ raised = "RuntimeError"
    /\ result = Some(1)
    /\ lastOp.op = "setup"

\* C2: when session is read after setup and the options hold neither a
\* non-empty --host list nor a --hosts-file, a critical message is logged
\* and sys.exit(1) ends the process; no Session is constructed and _session
\* stays None.
C2_MissingHostsExits ==
    ( /\ lastOp.op = "session"
      /\ SetupCompleted
      /\ _options[1]["--host"] = <<>>
      /\ _options[1]["--hosts-file"] = None )
    =>
    ( /\ lastOp.raised = "SystemExit"
      /\ exitArg = Some(1)
      /\ (exc = "SystemExit" \/ pc = "exited")
      /\ log # <<>>
      /\ log[Len(log)].method = "critical"
      /\ _session = None
      /\ nSessions = 0
      /\ result = None )

C2_Witness ==
    /\ lastOp.op = "session"
    /\ SetupCompleted
    /\ _options[1]["--host"] = <<>>
    /\ _options[1]["--hosts-file"] = None
    /\ pc = "exited"
    /\ exitArg = Some(1)

\* C3: when --hosts-file names a readable file, the first read of session
\* constructs a Session whose hosts are the stripped lines of the file, in
\* file order, followed by the --host values in command-line order.
C3_HostsFromFile ==
    ( /\ lastOp.op = "session"
      /\ SetupCompleted
      /\ _options[1]["--hosts-file"] # None
      /\ Readable(_options[1]["--hosts-file"][1]) )
    =>
    ( /\ _session # None
      /\ _session[1].hosts =
            parse_hosts_file(FileObject(fs)).res \o _options[1]["--host"] )

\* C4: -q/--quiet suppresses the output made to stdout: once setup has
\* completed with --quiet true, whatever the -v count, config.verbosity is
\* OUTPUT_SILENT and the stdout member is a NullFile, and from then on
\* nothing more reaches the standard output (print_version emits nothing);
\* once setup has completed with --quiet false, the stdout member is still
\* the original sys.stdout.
C4_QuietState ==
    (setupArgs # None /\ SetupCompleted) =>
        IF setupArgs[1].quiet
        THEN config[1].verbosity = OUTPUT_SILENT /\ stdout = "NullFile"
        ELSE stdout = "sys.stdout"

C4_QuietStep ==
    (setupArgs # None /\ SetupCompleted /\ setupArgs[1].quiet) =>
        written' = written

C5_LazyState ==
    /\ nSessions = (IF _session = None THEN 0 ELSE 1)
    /\ nManagers = (IF _command_manager = None THEN 0 ELSE 1)
    /\ _session # None => _session[1].id = 1
    /\ _command_manager # None =>
          (_command_manager[1].id = 1 /\ _command_manager[1].commands = <<"help">>)
    /\ optionReads >= nSessions

C5_LazyStep ==
    /\ _session # None =>
          (_session' = _session /\ optionReads' = optionReads
           /\ fileOpens' = fileOpens /\ nSessions' = nSessions)
    /\ _command_manager # None =>
          (_command_manager' = _command_manager /\ nManagers' = nManagers)
    /\ _session' # _session => lastOp'.op = "session"
    /\ _command_manager' # _command_manager => lastOp'.op = "command_manager"

C5_LazySingletons == [] C5_LazyState /\ [][C5_LazyStep]_vars

C5_Witness ==
    /\ lastOp = Op("session", "none")
    /\ nSessions = 1
    /\ optionReads = 1
    /\ _session # None

\* C6: when an Exception leaves cmd.run, run logs exactly one record: a
\* traceback (LOG().exception) if and only if the exception is no LmiError
\* and tracing is on, tracing being config.trace when there is a
\* configuration and True when there is none; otherwise the exception's
\* message as an error (LOG().error).
C6_Handled == pc = "running" /\ pc' = "returned" /\ raised' # "none"

C6_Step ==
    C6_Handled =>
        LET tracing == IF config = None THEN TRUE ELSE config[1].trace
            traceback == ~(raised' = "LmiError") /\ tracing
        IN  /\ Len(log') = Len(log) + 1
            /\ SubSeq(log', 1, Len(log)) = log
            /\ log'[Len(log')].msg = raised'
            /\ log'[Len(log')].method = (IF traceback THEN "exception" ELSE "error")

C6_ExceptionClassification == [][C6_Step]_vars

C6_Witness ==
    /\ pc = "returned"
    /\ raised = "RuntimeError"
    /\ config = None
    /\ lastOp.op = "setup"
    /\ log[Len(log)].method = "exception"

\* C7: a Session exists only if setup has completed: config is not None,
\* the console handler is attached to the root logger and no NullHandler
\* is left on it, and _options is set; reading session before setup has
\* completed fails and constructs no Session.
C7_SessionOnlyAfterSetup ==
    /\ _session # None =>
          ( /\ config # None
            /\ SetupCompleted
            /\ \E i \in DOMAIN handlers : handlers[i] = "StreamHandler"
            /\ \A i \in DOMAIN handlers : handlers[i] # "NullHandler" )
    /\ (lastOp.op = "session" /\ ~SetupCompleted) =>
          (lastOp.raised = "TypeError" /\ _session = None /\ nSessions = 0)

C7_Witness ==
    /\ _session # None
    /\ lastOp = Fresh("session")
    /\ Len(handlers) = 2

====
